---------------------------- MODULE Spec2Model ----------------------------
(***************************************************************************)
(* Model of the Tech SEO Analysis Tool:                                    *)
(*   - src/app/api/recommend/route.ts : the recommendation proxy (POST)    *)
(*   - src/app/page.tsx               : score/severity utilities, the      *)
(*     dataset store (state + localStorage mirror), the implementation     *)
(*     checklist projection, auto-prioritize, generateRecs, CSV export.    *)
(*                                                                         *)
(* The specifications share the variables:                                 *)
(*   SpecProxy : one request through the POST handler of route.ts          *)
(*   Spec      : the page component: mount effects, handlers, effects      *)
(*   SpecFn    : the pure dataset functions applied to bounded datasets    *)
(*   SpecScore : sanitizeScore applied to bounded inputs                   *)
(*   SpecCsv   : downloadCSV applied to bounded sequences of rows          *)
(*   SpecRecs  : generateRecs calls interleaved with edits                 *)
(*   SpecMount : the start of a session from each stored snapshot          *)
(***************************************************************************)
EXTENDS Integers, Sequences, FiniteSets, TLC

VARIABLES
    \* ---- route.ts ----
    API_KEY,       \* module constant API_KEY (route.ts:5-7): a string, "" when unset
    reqState,      \* "Idle" | "Requesting" | "Succeeded" | "Failed"
    pc,            \* position inside POST: "idle" | "entered" | "fetching" | "done"
    request,       \* what req.json() will yield for the request being handled
    upstream,      \* sequence of the fetch calls issued to the generative API, each with its reply
    responses,     \* sequence of the NextResponse objects returned by POST
    \* ---- page.tsx ----
    data,          \* useState data (page.tsx:134): sequence of rows
    storage,       \* localStorage slot 'tsa.template.data': Absent or a JSON text
    templateSource,\* useState templateSource (page.tsx:137)
    loadingId,     \* useState loadingId (page.tsx:139): NoId or a row id
    phase,         \* "mountLoad" | "mountPersist" | "mountCommit" | "ready"; "remount..."
                   \* for a second run of the mount effects
    queued,        \* the setData/setTemplateSource calls of the load effect, not yet rendered
    dirty,         \* TRUE when a commit changed data and the persist effect is due
    inflight,      \* generateRecs calls awaiting their fetch: how many, per row id
    budget,        \* handler invocations left in this exploration
    last           \* what ran last: the handler (op), whether the last setItem and the
                   \* last reset's removeItem went through; in SpecFn, SpecScore and
                   \* SpecCsv the call with its input and output; in SpecMount also the
                   \* slot as the session found it

proxyVars == <<API_KEY, reqState, pc, request, upstream, responses>>
pageVars  == <<data, storage, templateSource, loadingId, phase, queued, dirty, inflight, budget, last>>
vars      == <<API_KEY, reqState, pc, request, upstream, responses,
               data, storage, templateSource, loadingId, phase, queued, dirty, inflight, budget, last>>

(***************************************************************************)
(* JavaScript values (only what route.ts touches)                          *)
(***************************************************************************)
Undefined == [t |-> "undefined"]
JNull     == [t |-> "null"]
JStr(s)   == [t |-> "string", s |-> s]
JNum(n)   == [t |-> "number", n |-> n]
JArr(a)   == [t |-> "array",  a |-> a]
JObj(f)   == [t |-> "object", f |-> f]

Digit == <<"0", "1", "2", "3", "4", "5", "6", "7", "8", "9">>

\* String(n) for a non-negative integer, as text
RECURSIVE DecStr(_)
DecStr(n) == IF n < 10 THEN Digit[n + 1] ELSE DecStr(n \div 10) \o Digit[(n % 10) + 1]

\* v?.[k] for a property name k
Get(v, k) == IF v.t = "object" /\ k \in DOMAIN v.f THEN v.f[k] ELSE Undefined

\* v?.[i] for an array index i (0-based)
At(v, i) == IF v.t = "array" /\ i + 1 \in DOMAIN v.a THEN v.a[i + 1] ELSE Undefined

\* Boolean(v)
Truthy(v) ==
    CASE v.t = "undefined" -> FALSE
      [] v.t = "null"      -> FALSE
      [] v.t = "string"    -> v.s # ""
      [] v.t = "number"    -> v.n # 0
      [] OTHER             -> TRUE

\* String(v) / `${v}`
ToStr(v) ==
    CASE v.t = "undefined" -> "undefined"
      [] v.t = "null"      -> "null"
      [] v.t = "string"    -> v.s
      [] v.t = "number"    -> DecStr(v.n)
      [] OTHER             -> "[object Object]"

\* a || b
OrElse(a, b) == IF Truthy(a) THEN a ELSE b

\* a ?? b
Coalesce(a, b) == IF a.t \in {"undefined", "null"} THEN b ELSE a

\* destructuring default: { k = dflt } = obj
Field(obj, k, dflt) == IF Get(obj, k).t = "undefined" THEN dflt ELSE Get(obj, k)


(***************************************************************************)
(* route.ts                                                                *)
(***************************************************************************)
\* route.ts:4  (GEMINI_MODEL unset: the default)
MODEL == "gemini-2.0-flash"

\* The upstream JSON texts considered, each with what JSON.parse makes of it
\* (ok = FALSE: JSON.parse throws a SyntaxError).
JSON_TABLE == {
    [raw |-> "", ok |-> FALSE, value |-> Undefined],
    [raw |-> "<html>Bad Gateway</html>", ok |-> FALSE, value |-> Undefined],
    [raw |-> "{\"candidates\":[{\"content\":{\"parts\":[{\"text\":\"Fix A\"},{\"text\":\" now\"}]}}]}",
     ok |-> TRUE,
     value |-> JObj([candidates |-> JArr(<<JObj([content |-> JObj([parts |->
                 JArr(<<JObj([text |-> JStr("Fix A")]), JObj([text |-> JStr(" now")])>>)])])>>)])],
    [raw |-> "{\"candidates\":[{\"content\":{\"parts\":[{\"text\":7},{}]}}]}",
     ok |-> TRUE,
     value |-> JObj([candidates |-> JArr(<<JObj([content |-> JObj([parts |->
                 JArr(<<JObj([text |-> JNum(7)]), JObj(<<>>)>>)])])>>)])],
    [raw |-> "{\"candidates\":[{\"content\":{\"parts\":[{}]},\"finishReason\":\"SAFETY\"}]}",
     ok |-> TRUE,
     value |-> JObj([candidates |-> JArr(<<JObj([content |-> JObj([parts |-> JArr(<<JObj(<<>>)>>)]),
                                                 finishReason |-> JStr("SAFETY")])>>)])],
    [raw |-> "{\"candidates\":[{\"finish_reason\":\"MAX_TOKENS\"}]}",
     ok |-> TRUE,
     value |-> JObj([candidates |-> JArr(<<JObj([finish_reason |-> JStr("MAX_TOKENS")])>>)])],
    [raw |-> "{\"candidates\":[{\"output_text\":\"Alt text\"}]}",
     ok |-> TRUE,
     value |-> JObj([candidates |-> JArr(<<JObj([output_text |-> JStr("Alt text")])>>)])],
    [raw |-> "{\"text\":\"Top text\"}", ok |-> TRUE, value |-> JObj([text |-> JStr("Top text")])],
    [raw |-> "{\"promptFeedback\":{\"blockReason\":\"OTHER\"}}",
     ok |-> TRUE,
     value |-> JObj([promptFeedback |-> JObj([blockReason |-> JStr("OTHER")])])],
    [raw |-> "{}", ok |-> TRUE, value |-> JObj(<<>>)],
    [raw |-> "null", ok |-> TRUE, value |-> JNull],
    [raw |-> "{\"error\":{\"code\":429,\"message\":\"quota\"}}",
     ok |-> TRUE,
     value |-> JObj([error |-> JObj([code |-> JNum(429), message |-> JStr("quota")])])]
}

RawTexts == {e.raw : e \in JSON_TABLE}

\* JSON.parse(raw): [ok |-> FALSE] when it throws
JSONparse(raw) == LET e == CHOOSE x \in JSON_TABLE : x.raw = raw IN [ok |-> e.ok, value |-> e.value]

\* route.ts:100-101   let data = {}; try { data = raw ? JSON.parse(raw) : {}; } catch {}
ParseUpstream(raw) ==
    IF raw = "" THEN JObj(<<>>)
    ELSE IF JSONparse(raw).ok THEN JSONparse(raw).value ELSE JObj(<<>>)

\* route.ts:15   parts.map(p => p?.text).filter(Boolean).join('')
RECURSIVE JoinTexts(_)
JoinTexts(parts) ==
    IF Len(parts) = 0 THEN ""
    ELSE LET t == Get(Head(parts), "text")
         IN  (IF Truthy(t) THEN ToStr(t) ELSE "") \o JoinTexts(Tail(parts))

\* route.ts:9-27.  Result: [text, explain], Undefined for a field left out.
\* Every access is optional-chained or guarded by typeof, so the catch branch
\* (route.ts:24-26) is not reachable for values JSON.parse can produce.
extractText(d) ==
    LET c      == At(Get(d, "candidates"), 0)
        parts  == Get(Get(c, "content"), "parts")
        joined == IF parts.t = "array" THEN JoinTexts(parts.a) ELSE ""
        out    == Get(c, "output_text")
        top    == Get(d, "text")
        finish == OrElse(OrElse(Get(c, "finishReason"), Get(c, "finish_reason")),
                         Get(Get(d, "promptFeedback"), "blockReason"))
    IN  IF parts.t = "array" /\ joined # "" THEN [text |-> JStr(joined), explain |-> Undefined]
        ELSE IF out.t = "string" /\ out.s # "" THEN [text |-> out, explain |-> Undefined]
        ELSE IF top.t = "string" /\ top.s # "" THEN [text |-> top, explain |-> Undefined]
        ELSE [text |-> Undefined,
              explain |-> JStr("No text in response. finishReason="
                               \o ToStr(Coalesce(finish, JStr("unknown"))))]

\* NextResponse.json(body, { status })
Json(body, status) == [status |-> status, body |-> body]

\* route.ts:32-35
MissingKeyMessage == "Server is missing GOOGLE_GENAI_API_KEY."
MissingKeyResponse == Json(JObj([recommendation |-> JStr(MissingKeyMessage)]), 500)

\* route.ts:42-45  (the source's curly quotes are written \" here: ASCII only)
Acknowledgment(element) ==
    "No action needed. \"" \o ToStr(element)
        \o "\" meets best practices. Maintain current implementation and monitor over time."
ShortCircuitResponse(element) == Json(JObj([recommendation |-> JStr(Acknowledgment(element))]), 200)

\* route.ts:119-122
ServerErrorResponse(e) == Json(JObj([recommendation |-> JStr("Server error: " \o e)]), 500)

\* route.ts:103-109
GeminiErrorResponse(status, raw) ==
    Json(JObj([recommendation |-> JStr("Gemini error: " \o DecStr(status) \o " " \o raw)]), 500)

\* mutant: the text returned as it is, with no fallback message
ExtractedResponse_NoFallback(d) == Json(JObj([recommendation |-> extractText(d).text]), 200)

\* route.ts:111-118.  explain is always set when text is not, so trim() removes
\* nothing; with explain undefined it would remove the trailing blank.
ExtractedResponse(d) ==
    LET r == extractText(d)
    IN  IF Truthy(r.text) THEN Json(JObj([recommendation |-> r.text]), 200)
        ELSE Json(JObj([recommendation |->
                 JStr(IF r.explain.t = "undefined"
                      THEN "No recommendation text returned."
                      ELSE "No recommendation text returned. " \o ToStr(r.explain))]), 200)

\* route.ts:55-69 (the text after the interpolated fields is fixed)
UserPrompt(element, category, subcategory, score, analysis) ==
    "INSPECTION ELEMENT: " \o ToStr(element)
      \o "\nCATEGORY/SUBCATEGORY: " \o ToStr(category) \o " / " \o ToStr(subcategory)
      \o "\nCURRENT SCORE: " \o ToStr(score)
      \o "\nANALYSIS (verbatim notes):\n" \o ToStr(analysis) \o "\n\nWrite: ..."

\* route.ts:72  (keys considered need no percent-encoding)
Url == "https://generativelanguage.googleapis.com/v1beta/models/" \o MODEL
          \o ":generateContent?key=" \o API_KEY

\* mutant: the credential check left out
HasKey_Always(k) == TRUE

\* route.ts:31   if (!API_KEY)
HasKey(k) == Truthy(JStr(k))

\* mutant: the score compared as a number, score === 9
IsTargetScore_NumberOnly(score) == score.t = "number" /\ score.n = 9

\* route.ts:41   String(score) === '9'
IsTargetScore(score) == ToStr(score) = "9"

\* route.ts:103  resp.ok
RespOk(status) == status >= 200 /\ status <= 299

\* ---- the inputs of one request ----
ScoreValues   == {JStr("9"), JNum(9), JStr("5"), JStr("")}
ElementValues == {JStr("Title tag"), JStr("")}
OptField(k, v) == IF v.t = "undefined" THEN <<>> ELSE [x \in {k} |-> v]

\* what `await req.json()` yields: a SyntaxError, null, or an object with any of
\* the optional fields
Requests ==
    {[kind |-> "throws", error |-> "SyntaxError: Unexpected end of JSON input", value |-> Undefined],
     [kind |-> "value", error |-> "", value |-> JNull]}
    \cup {[kind |-> "value", error |-> "",
           value |-> JObj(OptField("score", sc) @@ OptField("element", el)
                          @@ [analysis |-> JStr("thin content")])] :
            sc \in ScoreValues \cup {Undefined}, el \in ElementValues \cup {Undefined}}

Statuses == {200, 400, 429, 500}

\* how the fetch of route.ts:93 and the resp.text() of route.ts:99 can end
FetchOutcomes ==
    {[kind |-> "rejects", error |-> "TypeError: fetch failed", status |-> 0, raw |-> ""],
     [kind |-> "textRejects", error |-> "TypeError: terminated", status |-> 200, raw |-> ""]}
    \cup {[kind |-> "response", error |-> "", status |-> st, raw |-> raw] :
            st \in Statuses, raw \in RawTexts}

\* a fetch that has not settled yet
Pending == [kind |-> "pending", error |-> "", status |-> 0, raw |-> ""]

\* reading the fields of null throws (route.ts:38)
DestructureError == "TypeError: Cannot destructure property 'analysis' of null"

\* The handler returns response r: the request is over.
Return(r, outcome) ==
    /\ responses' = Append(responses, r)
    /\ reqState' = outcome
    /\ pc' = "done"

\* A request arrives and POST is invoked with it (route.ts:29).
Invoke(rq) ==
    /\ reqState = "Idle"
    /\ reqState' = "Requesting"
    /\ pc' = "entered"
    /\ request' = rq
    /\ UNCHANGED <<API_KEY, upstream, responses, pageVars>>

\* route.ts:30-97: from the entry of POST to the fetch (or an early return).
Entry ==
    /\ pc = "entered"
    /\ IF ~HasKey(API_KEY)
         THEN Return(MissingKeyResponse, "Failed") /\ UNCHANGED upstream
       ELSE IF request.kind = "throws"
         THEN Return(ServerErrorResponse(request.error), "Failed") /\ UNCHANGED upstream
       ELSE IF request.value.t = "null"
         THEN Return(ServerErrorResponse(DestructureError), "Failed") /\ UNCHANGED upstream
       ELSE LET b       == request.value
                score   == Field(b, "score", JStr(""))
                element == Field(b, "element", JStr(""))
            IN  IF IsTargetScore(score)
                  THEN Return(ShortCircuitResponse(element), "Succeeded") /\ UNCHANGED upstream
                ELSE /\ upstream' = Append(upstream,
                            [url |-> Url,
                             prompt |-> UserPrompt(element, Field(b, "category", JStr("")),
                                                   Field(b, "subcategory", JStr("")), score,
                                                   Field(b, "analysis", JStr(""))),
                             reply |-> Pending])
                     /\ pc' = "fetching"
                     /\ UNCHANGED <<reqState, responses>>
    /\ UNCHANGED <<API_KEY, request, pageVars>>

\* route.ts:93-122: the fetch settles and the handler runs to its return.
FetchSettles(o) ==
    /\ pc = "fetching"
    /\ IF o.kind \in {"rejects", "textRejects"}
         THEN Return(ServerErrorResponse(o.error), "Failed")
       ELSE IF ~RespOk(o.status)
         THEN Return(GeminiErrorResponse(o.status, o.raw), "Failed")
       ELSE LET r == ExtractedResponse(ParseUpstream(o.raw))
            IN  Return(r, IF Truthy(extractText(ParseUpstream(o.raw)).text)
                          THEN "Succeeded" ELSE "Failed")
    /\ upstream' = [upstream EXCEPT ![Len(upstream)].reply = o]
    /\ UNCHANGED <<API_KEY, request, pageVars>>


(***************************************************************************)
(* page.tsx: text                                                          *)
(* score and priority are texts the code parses, so they are kept as       *)
(* sequences of one-character strings: "" is <<>>, "N/A" is <<"N","/","A">>*)
(***************************************************************************)
Chars(s) == [t |-> "string", s |-> s]

DigitChars == {"0", "1", "2", "3", "4", "5", "6", "7", "8", "9"}
DigitVal(c) == CHOOSE d \in 0..9 : Digit[d + 1] = c
WhiteSpace == {" ", "\t", "\n"}

RECURSIVE DigitsToNat(_)
DigitsToNat(s) == IF Len(s) = 0 THEN 0
                  ELSE 10 * DigitsToNat(SubSeq(s, 1, Len(s) - 1)) + DigitVal(s[Len(s)])

\* String(n) for a non-negative integer, as characters
RECURSIVE DecChars(_)
DecChars(n) == IF n < 10 THEN <<Digit[n + 1]>> ELSE Append(DecChars(n \div 10), Digit[(n % 10) + 1])

RECURSIVE Pow10(_)
Pow10(k) == IF k = 0 THEN 1 ELSE 10 * Pow10(k - 1)

\* s.trim()
RECURSIVE TrimLeft(_)
TrimLeft(s) == IF Len(s) > 0 /\ Head(s) \in WhiteSpace THEN TrimLeft(Tail(s)) ELSE s
RECURSIVE TrimRight(_)
TrimRight(s) == IF Len(s) > 0 /\ s[Len(s)] \in WhiteSpace
                THEN TrimRight(SubSeq(s, 1, Len(s) - 1)) ELSE s
Trim(s) == TrimRight(TrimLeft(s))

\* s.toUpperCase(), for ASCII texts
LowerLetters == <<"a", "b", "c", "d", "e", "f", "g", "h", "i", "j", "k", "l", "m",
                  "n", "o", "p", "q", "r", "s", "t", "u", "v", "w", "x", "y", "z">>
UpperLetters == <<"A", "B", "C", "D", "E", "F", "G", "H", "I", "J", "K", "L", "M",
                  "N", "O", "P", "Q", "R", "S", "T", "U", "V", "W", "X", "Y", "Z">>
UpperChar(c) == IF \E i \in 1..26 : LowerLetters[i] = c
                THEN UpperLetters[CHOOSE i \in 1..26 : LowerLetters[i] = c]
                ELSE c
ToUpperCase(s) == [i \in DOMAIN s |-> UpperChar(s[i])]

\* s.replace(/[^0-9]/g, '')
RECURSIVE DigitsOnly(_)
DigitsOnly(s) == IF Len(s) = 0 THEN <<>>
                 ELSE (IF Head(s) \in DigitChars THEN <<Head(s)>> ELSE <<>>) \o DigitsOnly(Tail(s))

AllDigits(s) == \A i \in DOMAIN s : s[i] \in DigitChars
IndexOfDot(s) == IF \E i \in DOMAIN s : s[i] = "." THEN CHOOSE i \in DOMAIN s : s[i] = "." /\ \A j \in 1..(i-1) : s[j] # "."
                 ELSE 0

\* Math.round(x) = floor(x + 1/2)
MathRound(n) == (2 * n.num + n.den) \div (2 * n.den)
MathMin(a, b) == IF a < b THEN a ELSE b
MathMax(a, b) == IF a > b THEN a ELSE b

\* A number is the value num/den; den = 0 is +Infinity or -Infinity (by the sign
\* of num), nan is NaN.
NaN == [nan |-> TRUE, num |-> 0, den |-> 1]
Zero == [nan |-> FALSE, num |-> 0, den |-> 1]
Infinity == [nan |-> FALSE, num |-> 1, den |-> 0]

\* Number.isFinite(n)
IsFinite(n) == ~n.nan /\ n.den # 0

\* Finite magnitudes from Saturation up are kept as Saturation, and magnitudes
\* below 1/10 as 0: the callers round and clamp to [1,9], or compare
\* priorities below 1000, so they cannot tell the difference.
Saturation == 1000000

\* the digits of radix r (2, 8, 16) of a 0b / 0o / 0x literal
RadixDigits == <<"0", "1", "2", "3", "4", "5", "6", "7", "8", "9", "A", "B", "C", "D", "E", "F">>
RadixVal(c) == (CHOOSE i \in 1..16 : RadixDigits[i] = UpperChar(c)) - 1
RECURSIVE RadixToNat(_, _)
RadixToNat(s, r) ==
    IF Len(s) = 0 THEN 0
    ELSE MathMin(Saturation, r * RadixToNat(SubSeq(s, 1, Len(s) - 1), r) + RadixVal(s[Len(s)]))
RadixOf(c) == CASE c \in {"x", "X"} -> 16 [] c \in {"o", "O"} -> 8 [] c \in {"b", "B"} -> 2
                [] OTHER -> 0
RadixNumber(s) ==
    LET r == RadixOf(s[2])
        digits == SubSeq(s, 3, Len(s))
    IN  IF Len(digits) > 0 /\ \A i \in DOMAIN digits : \E j \in 1..r : RadixDigits[j] = UpperChar(digits[i])
        THEN [nan |-> FALSE, num |-> RadixToNat(digits, r), den |-> 1]
        ELSE NaN

IndexOfExp(s) == IF \E i \in DOMAIN s : s[i] \in {"e", "E"}
                 THEN CHOOSE i \in DOMAIN s : s[i] \in {"e", "E"} /\ \A j \in 1..(i-1) : s[j] \notin {"e", "E"}
                 ELSE 0

\* the first four significant digits of a positive integer, as a number
\* between 1000 and 9999
Lead4(n) == LET d == DecChars(n)
            IN  IF Len(d) >= 4 THEN DigitsToNat(SubSeq(d, 1, 4))
                ELSE n * Pow10(4 - Len(d))

\* the parts of a decimal literal: mantissa [e exponent], the mantissa
\* integer [. fraction]
MantissaOf(s) == IF IndexOfExp(s) = 0 THEN s ELSE SubSeq(s, 1, IndexOfExp(s) - 1)
ExponentOf(s) == IF IndexOfExp(s) = 0 THEN <<>> ELSE SubSeq(s, IndexOfExp(s) + 1, Len(s))
IntegerPart(m) == IF IndexOfDot(m) = 0 THEN m ELSE SubSeq(m, 1, IndexOfDot(m) - 1)
FractionPart(m) == IF IndexOfDot(m) = 0 THEN <<>> ELSE SubSeq(m, IndexOfDot(m) + 1, Len(m))
ExponentDigits(e) == IF Len(e) > 0 /\ Head(e) \in {"-", "+"} THEN Tail(e) ELSE e
ExponentValue(e) == IF Len(e) > 0 /\ Head(e) = "-" THEN 0 - DigitsToNat(ExponentDigits(e))
                    ELSE DigitsToNat(ExponentDigits(e))

\* num * 10^k for a natural number num.  A value above Number.MAX_VALUE
\* (1.7976931348623157e308) is Infinity; the comparison is on the first four
\* significant digits, exact for the mantissas of up to four digits
\* considered.
Scaled(num, k) ==
    LET order == Len(DecChars(num)) - 1 + k
    IN  IF num = 0 THEN Zero
        ELSE IF order > 308 \/ (order = 308 /\ Lead4(num) >= 1798) THEN Infinity
        ELSE IF order >= 6 THEN [nan |-> FALSE, num |-> Saturation, den |-> 1]
        ELSE IF order < 0 - 1 THEN Zero
        ELSE IF k >= 0 THEN [nan |-> FALSE, num |-> num * Pow10(k), den |-> 1]
        ELSE [nan |-> FALSE, num |-> num, den |-> Pow10(0 - k)]

\* digits [. digits] [e [+-] digits], at least one digit before the exponent
DecimalLiteral(ip, fp, hasExponent, e) ==
    IF Len(ip) + Len(fp) = 0 \/ ~AllDigits(ip) \/ ~AllDigits(fp) THEN NaN
    ELSE IF hasExponent /\ (Len(ExponentDigits(e)) = 0 \/ ~AllDigits(ExponentDigits(e))) THEN NaN
    ELSE Scaled(DigitsToNat(ip) * Pow10(Len(fp)) + DigitsToNat(fp), ExponentValue(e) - Len(fp))

UnsignedNumber(s) ==
    DecimalLiteral(IntegerPart(MantissaOf(s)), FractionPart(MantissaOf(s)),
                   IndexOfExp(s) # 0, ExponentOf(s))

Magnitude(u) == IF u = <<"I", "n", "f", "i", "n", "i", "t", "y">> THEN Infinity ELSE UnsignedNumber(u)

\* a text without white space around it
TrimmedNumber(s) ==
    IF Len(s) = 0 THEN Zero
    ELSE IF Len(s) >= 2 /\ s[1] = "0" /\ RadixOf(s[2]) # 0 THEN RadixNumber(s)
    ELSE IF Head(s) = "-" THEN [Magnitude(Tail(s)) EXCEPT !.num = 0 - @]
    ELSE IF Head(s) = "+" THEN Magnitude(Tail(s))
    ELSE Magnitude(s)

\* Number(s) for a text (StringToNumber): white space trimmed, the empty text
\* is 0, then a 0x / 0o / 0b literal, or a signed "Infinity", or a signed
\* decimal literal; anything else is NaN.
NumberOf(s0) == TrimmedNumber(Trim(s0))

(***************************************************************************)
(* page.tsx: utilities                                                     *)
(***************************************************************************)
\* page.tsx:46
TARGET_FIXED == <<"9">>
\* mutant: the flag off, rows scored N/A are filtered out as well
INCLUDE_NA_IN_IMPLEMENTATION_Off == FALSE

\* page.tsx:45
INCLUDE_NA_IN_IMPLEMENTATION == TRUE
\* page.tsx:68
SCORE_OPTIONS == <<<<"N", "/", "A">>, <<"1">>, <<"2">>, <<"3">>, <<"4">>, <<"5">>,
                   <<"6">>, <<"7">>, <<"8">>, <<"9">>>>
NA == <<"N", "/", "A">>

\* String(val) as characters, for a text, a non-negative integer or a boolean
StringChars(val) ==
    CASE val.t = "string"  -> val.s
      [] val.t = "number"  -> DecChars(val.n)
      [] val.t = "boolean" -> IF val.b THEN <<"t", "r", "u", "e">> ELSE <<"f", "a", "l", "s", "e">>

\* mutant: the result rounded but not clamped to [1,9]
sanitizeScore_NoClamp(val) ==
    IF val.t \in {"undefined", "null"} THEN <<>>
    ELSE LET s == Trim(StringChars(val))
             n == NumberOf(s)
         IN  IF ToUpperCase(s) = NA THEN NA
             ELSE IF Len(s) = 0 THEN <<>>
             ELSE IF ~IsFinite(n) THEN <<>>
             ELSE IF MathRound(n) < 0 THEN <<"-">> \o DecChars(0 - MathRound(n))
             ELSE DecChars(MathRound(n))

\* page.tsx:71-79.  val is Undefined, JNull, Chars(text), a number or a boolean
sanitizeScore(val) ==
    IF val.t \in {"undefined", "null"} THEN <<>>
    ELSE LET s == Trim(StringChars(val))
             n == NumberOf(s)
         IN  IF ToUpperCase(s) = NA THEN NA
             ELSE IF Len(s) = 0 THEN <<>>
             ELSE IF ~IsFinite(n) THEN <<>>
             ELSE DecChars(MathMin(9, MathMax(1, MathRound(n))))

\* page.tsx:80-85.  The result is 10 - Number(score); it is computed here for
\* scores whose number is an integer (every score sanitizeScore can return).
inferSeverity(score) ==
    IF score = <<>> \/ score = NA THEN 0
    ELSE LET n == NumberOf(score)
         IN  CASE ~IsFinite(n) -> 0
               [] n.den = 1    -> 10 - n.num


\* page.tsx:86-89.  A text is a sequence of characters; the character U+221A of
\* the first header is written "U+221A".
RECURSIVE DoubleQuotes(_)
DoubleQuotes(s) ==
    IF Len(s) = 0 THEN <<>>
    ELSE (IF Head(s) = "\"" THEN <<"\"", "\"">> ELSE <<Head(s)>>) \o DoubleQuotes(Tail(s))

\* /[",\n]/.test(s)
NeedsQuotes(s) == \E i \in DOMAIN s : s[i] \in {"\"", ",", "\n"}

\* mutant: the field wrapped, its quotes left single
csvEscape_NoDoubling(val) ==
    LET s == StringChars(Coalesce(val, Chars(<<>>)))
    IN  IF NeedsQuotes(s) THEN <<"\"">> \o s \o <<"\"">> ELSE s

csvEscape(val) ==
    LET s == StringChars(Coalesce(val, Chars(<<>>)))
    IN  IF NeedsQuotes(s) THEN <<"\"">> \o DoubleQuotes(s) \o <<"\"">> ELSE s

\* Array.prototype.join(sep) of texts
RECURSIVE Join(_, _)
Join(parts, sep) ==
    IF Len(parts) = 0 THEN <<>>
    ELSE IF Len(parts) = 1 THEN parts[1]
    ELSE parts[1] \o sep \o Join(Tail(parts), sep)

\* page.tsx:91-95
CSV_HEADERS ==
    <<<<"X", "/", "U+221A">>,
     <<"I", "N", "S", "P", "E", "C", "T", "I", "O", "N", " ", "E", "L", "E", "M", "E", "N", "T">>,
     <<"P", "R", "I", "O", "R", "I", "T", "Y">>,
     <<"I", "S", "S", "U", "E", " ", "C", "A", "T", "E", "G", "O", "R", "Y">>,
     <<"I", "S", "S", "U", "E", " ", "S", "U", "B", "-", "C", "A", "T", "E", "G", "O", "R", "Y">>,
     <<"S", "K", "I", "L", "L", "S", "E", "T">>,
     <<"S", "C", "O", "R", "E">>,
     <<"T", "A", "R", "G", "E", "T", " ", "S", "C", "O", "R", "E">>,
     <<"A", "N", "A", "L", "Y", "S", "I", "S">>,
     <<"R", "E", "C", "O", "M", "M", "E", "N", "D", "A", "T", "I", "O", "N", "S">>,
     <<"I", "M", "P", "L", "E", "M", "E", "N", "T", "E", "R">>>>

\* v || '' for a field that is a text, undefined or null
OrEmpty(v) == IF v.t \in {"undefined", "null"} \/ (v.t = "string" /\ Len(v.s) = 0)
              THEN Chars(<<>>) ELSE v

\* page.tsx:98-110: the line of one row
CsvLine(r) ==
    LET fields == <<Chars(IF r.check THEN <<"T", "R", "U", "E">> ELSE <<"F", "A", "L", "S", "E">>),
                    r.inspectionElement,
                    OrEmpty(r.priority),
                    r.issueCategory,
                    r.issueSubCategory,
                    r.skillset,
                    OrEmpty(r.score),
                    Chars(TARGET_FIXED),
                    r.analysis,
                    r.recommendations,
                    OrEmpty(r.implementer)>>
    IN  Join([i \in 1..Len(fields) |-> csvEscape(fields[i])], <<",">>)

\* page.tsx:90-118: the text of the Blob that is downloaded
downloadCSV(rows) ==
    Join(<<Join(CSV_HEADERS, <<",">>)>> \o [i \in 1..Len(rows) |-> CsvLine(rows[i])], <<"\n">>)


(***************************************************************************)
(* page.tsx: rows, the bundled template, the JSON snapshot                 *)
(***************************************************************************)
NBundled == 2

\* '@/data/bundled_template' (page.tsx:19): rows with unique ids, nothing
\* scored or prioritised yet.  The id of a row is not its position.
BundledId(i) == 100 + i
BundledRow(i) ==
    [id |-> BundledId(i), check |-> FALSE, inspectionElement |-> "Element " \o DecStr(i),
     priority |-> <<>>, issueCategory |-> "1- Accessibility", issueSubCategory |-> "",
     skillset |-> "", score |-> <<>>, analysis |-> "", recommendations |-> "",
     implementer |-> ""]
BUNDLED_TEMPLATE == [i \in 1..NBundled |-> BundledRow(i)]

RowKeys == <<"id", "check", "inspectionElement", "priority", "issueCategory",
             "issueSubCategory", "skillset", "score", "analysis", "recommendations",
             "implementer">>
TextKeys == {"priority", "score"}

\* JSON.stringify(rows): the text is kept as the sequence of its objects, each
\* the sequence of its "key": value members in property order.
JsonMember(r, k) ==
    <<k, CASE k = "id"       -> JNum(r[k])
           [] k = "check"    -> [t |-> "boolean", b |-> r[k]]
           [] k \in TextKeys -> Chars(r[k])
           [] OTHER          -> JStr(r[k])>>
JSONstringify(rows) ==
    [present |-> TRUE,
     json |-> [i \in 1..Len(rows) |-> [j \in 1..Len(RowKeys) |-> JsonMember(rows[i], RowKeys[j])]]]

\* JSON.parse(raw) of such a text: the rows again
MemberValue(obj, k) ==
    LET m == obj[CHOOSE j \in 1..Len(obj) : obj[j][1] = k][2]
    IN  CASE m.t = "number"  -> m.n
          [] m.t = "boolean" -> m.b
          [] m.t = "string"  -> m.s
JSONparseRows(raw) ==
    [i \in 1..Len(raw.json) |-> [k \in {RowKeys[j] : j \in 1..Len(RowKeys)} |-> MemberValue(raw.json[i], k)]]

\* localStorage.getItem gives null for a key that is not there
Absent == [present |-> FALSE, json |-> <<>>]

NoId == 0

(***************************************************************************)
(* page.tsx: the dataset functions                                         *)
(***************************************************************************)
\* mutant: the id test left out, every row gets the value
onChangeField_AllRows(rows, id, key, value) ==
    [i \in 1..Len(rows) |-> [rows[i] EXCEPT ![key] = value]]

\* page.tsx:160-162   rows.map(r => r.id === id ? { ...r, [key]: value } : r)
onChangeField(rows, id, key, value) ==
    [i \in 1..Len(rows) |-> IF rows[i].id = id THEN [rows[i] EXCEPT ![key] = value] ELSE rows[i]]

\* mutant: the selected value stored as it is
ScoreSelected_Raw(v) == v

\* page.tsx:363   v === '_clear' ? '' : sanitizeScore(v)
CLEAR == <<"_", "c", "l", "e", "a", "r">>
ScoreSelected(v) == IF v = CLEAR THEN <<>> ELSE sanitizeScore(Chars(v))

\* page.tsx:375 / 420   e.target.value.replace(/[^0-9]/g,'')
PriorityTyped(text) == DigitsOnly(text)

\* Array.prototype.filter
RECURSIVE SelectRows(_, _)
SelectRows(rows, keep) ==
    IF Len(rows) = 0 THEN <<>>
    ELSE (IF keep[1] THEN <<Head(rows)>> ELSE <<>>)
           \o SelectRows(Tail(rows), [i \in 1..(Len(keep) - 1) |-> keep[i + 1]])

\* page.tsx:188   Number(a.priority||999): an empty priority is falsy
PriorityNumber(p) == IF Len(p) = 0 THEN 999 ELSE NumberOf(p).num

\* the two comparators: page.tsx:188 (the projection) and page.tsx:193 (the ranking)
Compare(which, a, b) ==
    IF which = "projection"
    THEN LET d == PriorityNumber(a.priority) - PriorityNumber(b.priority)
         IN  IF d # 0 THEN d ELSE b.severity - a.severity
    ELSE b.severity - a.severity

\* Array.prototype.sort with a comparator: a stable sort
InsertStable(sorted, x, which) ==
    LET k == Cardinality({i \in 1..Len(sorted) : Compare(which, sorted[i], x) <= 0})
    IN  SubSeq(sorted, 1, k) \o <<x>> \o SubSeq(sorted, k + 1, Len(sorted))
RECURSIVE ArraySort(_, _)
ArraySort(s, which) ==
    IF Len(s) = 0 THEN <<>>
    ELSE InsertStable(ArraySort(SubSeq(s, 1, Len(s) - 1), which), s[Len(s)], which)

\* page.tsx:186   the filter of the projection
InChecklist(r) == r.score # <<"9">> /\ (IF INCLUDE_NA_IN_IMPLEMENTATION THEN TRUE ELSE r.score # NA)

\* page.tsx:184-189
implementationRows(rows) ==
    LET kept == SelectRows(rows, [i \in 1..Len(rows) |-> InChecklist(rows[i])])
        withSeverity == [i \in 1..Len(kept) |-> [severity |-> inferSeverity(kept[i].score)] @@ kept[i]]
    IN  ArraySort(withSeverity, "projection")

\* page.tsx:192-194
Ranked(rows) ==
    LET sorted == ArraySort(implementationRows(rows), "severity")
    IN  [i \in 1..Len(sorted) |-> [id |-> sorted[i].id, priority |-> DecChars(i)]]

\* ranked.find(x => x.id === id)?.priority || old
RankedPriority(ranked, id, old) ==
    IF \E i \in 1..Len(ranked) : ranked[i].id = id
    THEN ranked[CHOOSE i \in 1..Len(ranked) :
                  ranked[i].id = id /\ \A j \in 1..(i - 1) : ranked[j].id # id].priority
    ELSE old

\* page.tsx:191-196
autoPrioritize(rows) ==
    [i \in 1..Len(rows) |->
        [rows[i] EXCEPT !.priority = RankedPriority(Ranked(rows), rows[i].id, rows[i].priority)]]


(***************************************************************************)
(* page.tsx: the component TechSEOAnalysisTool                             *)
(* React runs the effects of a commit before it renders the next update,   *)
(* so a handler's state update and the render that follows are one step,   *)
(* the persist effect of that render is the next step, and no handler or   *)
(* completion is taken in between.                                         *)
(***************************************************************************)
MaxOps      == 2     \* handler invocations explored in one behaviour
MaxInflight == 2     \* generateRecs requests awaiting their fetch at one time

RowIds == {BundledId(i) : i \in 1..NBundled}
RowPositions == 1..NBundled
NoQueue == [data |-> <<>>, source |-> "none"]

\* mutant: an empty dependency list, the effect runs on mount only
DepsChanged_MountOnly == FALSE

\* page.tsx:158: the effect's dependency list is [data]; every setData call of
\* the component passes a new array, so each commit of data re-runs the effect.
DepsChanged == TRUE

\* page.tsx:158   localStorage.setItem(key, JSON.stringify(data)) in try/catch:
\* ok = FALSE is setItem throwing (quota, storage disabled)
PersistWrite(ok) == IF ok THEN JSONstringify(data) ELSE storage

\* what the user can pick or type
SelectValues  == {CLEAR} \cup {SCORE_OPTIONS[i] : i \in 1..Len(SCORE_OPTIONS)}
PriorityTexts == {<<>>, <<"1", "a">>, <<"1", "0", "0", "0">>}
TextEdits     == {<<"recommendations", "Manual note">>, <<"inspectionElement", "Title tag">>}

\* what generateRecs gets back from fetch('/api/recommend') and resp.json()
ProxyReplies ==
    {[kind |-> "json", recommendation |-> JStr("Fix A now"), error |-> ""],
     [kind |-> "json", recommendation |-> Undefined, error |-> ""],
     [kind |-> "throws", recommendation |-> Undefined, error |-> "TypeError: Failed to fetch"]}

\* page.tsx:204
GenericRec ==
    "No action needed. This inspection element meets best practices. Continue to monitor and keep parity with Target Score "
      \o "9" \o "."

\* page.tsx:220 / 223
RecText(reply) ==
    IF reply.kind = "throws" THEN "Error generating recommendation: " \o reply.error
    ELSE ToStr(OrElse(reply.recommendation, JStr("No recommendation returned.")))

Ready == phase = "ready" /\ ~dirty
CanAct == Ready /\ budget > 0

\* a handler called setData: the render commits the new rows
Commit(rows, op) ==
    /\ data' = rows
    /\ dirty' = DepsChanged
    /\ budget' = budget - 1
    /\ last' = [last EXCEPT !.op = op, !.removed = FALSE]

\* page.tsx:142-155: the load effect of the first render
MountLoadEffect(getOk) ==
    /\ phase \in {"mountLoad", "remountLoad"}
    /\ queued' = IF getOk /\ storage.present
                 THEN [data |-> JSONparseRows(storage), source |-> "localStorage"]
                 ELSE [data |-> BUNDLED_TEMPLATE, source |-> "bundled"]
    /\ phase' = IF phase = "mountLoad" THEN "mountPersist" ELSE "remountPersist"
    /\ UNCHANGED <<data, storage, templateSource, loadingId, dirty, inflight, budget, last, proxyVars>>

\* page.tsx:158: the persist effect of the first render (data is still [])
MountPersistEffect(ok) ==
    /\ phase \in {"mountPersist", "remountPersist"}
    /\ storage' = PersistWrite(ok)
    /\ last' = [last EXCEPT !.written = ok]
    /\ phase' = IF phase = "mountPersist" THEN "mountCommit" ELSE "remountCommit"
    /\ UNCHANGED <<data, templateSource, loadingId, queued, dirty, inflight, budget, proxyVars>>

\* React's StrictMode (development builds): the effects of the first render
\* are run a second time, in the same order, before the state they set is
\* rendered
StrictModeRemount ==
    /\ phase = "mountCommit"
    /\ phase' = "remountLoad"
    /\ UNCHANGED <<data, storage, templateSource, loadingId, queued, dirty, inflight, budget, last, proxyVars>>

\* the render of the state the load effect set
MountCommit ==
    /\ phase \in {"mountCommit", "remountCommit"}
    /\ data' = queued.data
    /\ templateSource' = queued.source
    /\ queued' = NoQueue
    /\ dirty' = DepsChanged
    /\ phase' = "ready"
    /\ UNCHANGED <<storage, loadingId, inflight, budget, last, proxyVars>>

\* page.tsx:158: the persist effect after a commit that changed data
PersistEffect(ok) ==
    /\ phase = "ready" /\ dirty
    /\ storage' = PersistWrite(ok)
    /\ dirty' = FALSE
    /\ last' = [last EXCEPT !.written = ok]
    /\ UNCHANGED <<data, templateSource, loadingId, phase, queued, inflight, budget, proxyVars>>

\* page.tsx:363: the score Select of row i
SelectScore(i, v) ==
    /\ CanAct /\ i \in 1..Len(data)
    /\ Commit(onChangeField(data, data[i].id, "score", ScoreSelected(v)), "edit")
    /\ UNCHANGED <<storage, templateSource, loadingId, phase, queued, inflight, proxyVars>>

\* page.tsx:375 / 420: the priority Input of row i
TypePriority(i, text) ==
    /\ CanAct /\ i \in 1..Len(data)
    /\ Commit(onChangeField(data, data[i].id, "priority", PriorityTyped(text)), "edit")
    /\ UNCHANGED <<storage, templateSource, loadingId, phase, queued, inflight, proxyVars>>

\* page.tsx:335-360, 435: a text Input / Textarea of row i
TypeText(i, kv) ==
    /\ CanAct /\ i \in 1..Len(data)
    /\ Commit(onChangeField(data, data[i].id, kv[1], kv[2]), "edit")
    /\ UNCHANGED <<storage, templateSource, loadingId, phase, queued, inflight, proxyVars>>

\* page.tsx:332: the X/check Switch of row i
ToggleCheck(i) ==
    /\ CanAct /\ i \in 1..Len(data)
    /\ Commit(onChangeField(data, data[i].id, "check", ~data[i].check), "edit")
    /\ UNCHANGED <<storage, templateSource, loadingId, phase, queued, inflight, proxyVars>>

\* page.tsx:191-196 (button at page.tsx:398)
AutoPrioritize ==
    /\ CanAct
    /\ Commit(autoPrioritize(data), "autoPrioritize")
    /\ UNCHANGED <<storage, templateSource, loadingId, phase, queued, inflight, proxyVars>>

\* page.tsx:164-168 (button at page.tsx:301); removeOk = FALSE is removeItem throwing
ResetToBundled(removeOk) ==
    /\ CanAct
    /\ data' = BUNDLED_TEMPLATE
    /\ dirty' = DepsChanged
    /\ budget' = budget - 1
    /\ templateSource' = "bundled"
    /\ storage' = IF removeOk THEN Absent ELSE storage
    /\ last' = [last EXCEPT !.op = "reset", !.removed = removeOk]
    /\ UNCHANGED <<loadingId, phase, queued, inflight, proxyVars>>

\* mutant: the row rebuilt around the new text, the fields edited since lost
WriteBack_RowRebuilt(rows, id, text) ==
    [i \in 1..Len(rows) |->
        IF rows[i].id = id
        THEN [BundledRow(1) EXCEPT !.id = id, !.recommendations = text]
        ELSE rows[i]]

\* page.tsx:205 / 221 / 223   onChangeField(row.id, 'recommendations', text)
WriteBack(rows, id, text) == onChangeField(rows, id, "recommendations", text)

\* mutant: the button never disabled
GenerateDisabled_Never(id) == FALSE

\* page.tsx:340   disabled={loadingId === r.id}
GenerateDisabled(id) == loadingId = id

\* page.tsx:199-218 (button at page.tsx:340, disabled while loadingId === r.id):
\* generateRecs up to its await, or to its end for a row scored 9
GenerateRecs(i) ==
    /\ CanAct /\ i \in 1..Len(data)
    /\ ~GenerateDisabled(data[i].id)
    /\ IF data[i].score = <<"9">>
         THEN /\ Commit(WriteBack(data, data[i].id, GenericRec), "writeBack")
              /\ loadingId' = NoId
              /\ UNCHANGED inflight
         ELSE /\ inflight[data[i].id] < MaxInflight
              /\ inflight' = [inflight EXCEPT ![data[i].id] = @ + 1]
              /\ loadingId' = data[i].id
              /\ budget' = budget - 1
              /\ UNCHANGED <<data, dirty, last>>
    /\ UNCHANGED <<storage, templateSource, phase, queued, proxyVars>>

\* page.tsx:219-226: the awaited fetch of a generateRecs call settles
RecsSettle(id, reply) ==
    /\ Ready
    /\ inflight[id] > 0
    /\ inflight' = [inflight EXCEPT ![id] = @ - 1]
    /\ data' = WriteBack(data, id, RecText(reply))
    /\ dirty' = DepsChanged
    /\ last' = [last EXCEPT !.op = "writeBack", !.removed = FALSE]
    /\ loadingId' = NoId
    /\ UNCHANGED <<storage, templateSource, phase, queued, budget, proxyVars>>

\* the page is opened again: the component starts from its initial state
\* (page.tsx:134-139) and requests of the old page are gone
Reload ==
    /\ CanAct
    /\ data' = <<>>
    /\ templateSource' = "bundled"
    /\ loadingId' = NoId
    /\ phase' = "mountLoad"
    /\ queued' = NoQueue
    /\ dirty' = FALSE
    /\ inflight' = [i \in RowIds |-> 0]
    /\ budget' = budget - 1
    /\ last' = [op |-> "init", written |-> FALSE, removed |-> FALSE]
    /\ UNCHANGED <<storage, proxyVars>>

ProxyIdle ==
    /\ API_KEY = "k3y"
    /\ reqState = "Idle"
    /\ pc = "idle"
    /\ request = [kind |-> "none", error |-> "", value |-> Undefined]
    /\ upstream = <<>>
    /\ responses = <<>>

PageInit ==
    /\ data = <<>>
    /\ storage = Absent
    /\ templateSource = "bundled"
    /\ loadingId = NoId
    /\ phase = "mountLoad"
    /\ queued = NoQueue
    /\ dirty = FALSE
    /\ inflight = [i \in RowIds |-> 0]
    /\ budget = MaxOps
    /\ last = [op |-> "init", written |-> FALSE, removed |-> FALSE]

Init == ProxyIdle /\ PageInit

Next ==
    \/ \E ok \in BOOLEAN : MountLoadEffect(ok)
    \/ \E ok \in BOOLEAN : MountPersistEffect(ok)
    \/ MountCommit
    \/ \E ok \in BOOLEAN : PersistEffect(ok)
    \/ \E i \in RowPositions, v \in SelectValues : SelectScore(i, v)
    \/ \E i \in RowPositions, t \in PriorityTexts : TypePriority(i, t)
    \/ \E i \in RowPositions, kv \in TextEdits : TypeText(i, kv)
    \/ \E i \in RowPositions : ToggleCheck(i)
    \/ AutoPrioritize
    \/ \E ok \in BOOLEAN : ResetToBundled(ok)
    \/ \E i \in RowPositions : GenerateRecs(i)
    \/ \E id \in RowIds, reply \in ProxyReplies : RecsSettle(id, reply)
    \/ Reload

Spec == Init /\ [][Next]_vars

(***************************************************************************)
(* SpecProxy: one request through POST for each configuration and body     *)
(***************************************************************************)
ProxyInit ==
    /\ API_KEY \in {"", "k3y"}
    /\ reqState = "Idle"
    /\ pc = "idle"
    /\ request = [kind |-> "none", error |-> "", value |-> Undefined]
    /\ upstream = <<>>
    /\ responses = <<>>
    /\ PageInit

ProxyNext ==
    \/ \E rq \in Requests : Invoke(rq)
    \/ Entry
    \/ \E o \in FetchOutcomes : FetchSettles(o)

SpecProxy == ProxyInit /\ [][ProxyNext]_vars


(***************************************************************************)
(* SpecFn: the dataset functions applied once to each bounded dataset      *)
(***************************************************************************)
NRowsFn == 3

FnScores     == {<<>>, NA, <<"9">>, <<"3">>, <<"7">>}
FnPriorities == {<<>>, <<"1">>, <<"2">>}

\* the datasets the score Select and the priority Input can make of a template
\* of n rows
FnDatasets(n) ==
    {[i \in 1..n |-> [BundledRow(i) EXCEPT !.score = sc[i], !.priority = pr[i]]] :
        sc \in [1..n -> FnScores], pr \in [1..n -> FnPriorities]}

FnEdits == {<<"recommendations", "Manual note">>, <<"priority", <<"2">>>>, <<"check", TRUE>>,
            <<"score", <<"9">>>>}
FnIds   == {BundledId(i) : i \in 0..(NRowsFn + 1)}

FnInit ==
    /\ ProxyIdle
    /\ \E n \in 0..NRowsFn : data \in FnDatasets(n)
    /\ storage = Absent
    /\ templateSource = "bundled"
    /\ loadingId = NoId
    /\ phase = "ready"
    /\ queued = NoQueue
    /\ dirty = FALSE
    /\ inflight = [i \in RowIds |-> 0]
    /\ budget = 1
    /\ last = [op |-> "none", before |-> <<>>, id |-> NoId, key |-> "", value |-> ""]

FnFrame == UNCHANGED <<storage, templateSource, loadingId, phase, queued, dirty, inflight, proxyVars>>

FnOnChangeField(id, kv) ==
    /\ budget = 1
    /\ data' = onChangeField(data, id, kv[1], kv[2])
    /\ last' = [op |-> "onChangeField", before |-> data, id |-> id, key |-> kv[1], value |-> kv[2]]
    /\ budget' = 0
    /\ FnFrame

FnAutoPrioritize ==
    /\ budget = 1
    /\ data' = autoPrioritize(data)
    /\ last' = [op |-> "autoPrioritize", before |-> data, id |-> NoId, key |-> "", value |-> ""]
    /\ budget' = 0
    /\ FnFrame

FnNext ==
    \/ \E id \in FnIds, kv \in FnEdits : FnOnChangeField(id, kv)
    \/ FnAutoPrioritize

SpecFn == FnInit /\ [][FnNext]_vars


(***************************************************************************)
(* SpecScore: sanitizeScore applied once to each input of a bounded set    *)
(***************************************************************************)
MaxScoreLen == 3

\* null, undefined, numbers, booleans, every text of up to n characters of an
\* alphabet, and longer texts, among them those of spec 8
ScoreInputs(n) ==
    {Undefined, JNull, JNum(0), JNum(7), JNum(15),
     [t |-> "boolean", b |-> TRUE], [t |-> "boolean", b |-> FALSE]}
      \cup {Chars(t) : t \in UNION {[1..k -> {" ", "n", "N", "/", "a", "A", "0", "1", "5", "9", ".", "-", "e"}] :
                                       k \in 0..n}}
      \cup {Chars(t) : t \in
    {<<"a", "b", "c">>, <<"I", "n", "f", "i", "n", "i", "t", "y">>,
     <<"-", "I", "n", "f", "i", "n", "i", "t", "y">>, <<"i", "n", "f", "i", "n", "i", "t", "y">>,
     <<"1", "e", "9", "9", "9">>, <<"1", "7", "9", "7", "e", "3", "0", "5">>,
     <<"1", "7", "9", "8", "e", "3", "0", "5">>, <<"1", "e", "-", "9">>,
     <<"0", "x", "1", "0">>, <<"0", "X", "f">>, <<"0", "b", "1", "1">>, <<"0", "o", "1", "7">>,
     <<"-", "0", "x", "1", "0">>, <<"0", "x">>,
     <<" ", "\t", "7", "\n", " ">>, <<" ", "\t", "\n", " ">>, <<" ", "n", "/", "A", " ", " ">>,
     <<"2", ".", "4", "9">>, <<"8", ".", "5", "1">>, <<"+", "4", ".", "5", "1">>,
     <<"1", ",", "5">>, <<"1", "_", "0">>, <<"N", "a", "N">>, <<"N", "/", "A", "!">>,
     <<"1", "2", "3", "4", "5", "6", "7">>}}

ScoreInit ==
    /\ ProxyIdle
    /\ data = <<>>
    /\ storage = Absent
    /\ templateSource = "bundled"
    /\ loadingId = NoId
    /\ phase = "ready"
    /\ queued = NoQueue
    /\ dirty = FALSE
    /\ inflight = [i \in RowIds |-> 0]
    /\ budget = 1
    /\ \E v \in ScoreInputs(MaxScoreLen) : last = [op |-> "none", input |-> v, output |-> <<>>]

FnSanitizeScore ==
    /\ budget = 1
    /\ last' = [last EXCEPT !.op = "sanitizeScore", !.output = sanitizeScore(last.input)]
    /\ budget' = 0
    /\ UNCHANGED data
    /\ FnFrame

SpecScore == ScoreInit /\ [][FnSanitizeScore]_vars


(***************************************************************************)
(* SpecCsv: downloadCSV applied once to each sequence of rows of a bounded *)
(* set.  Here the exported fields of a row are kept as the values the code  *)
(* reads: a text (its characters), undefined or null.                      *)
(***************************************************************************)
MaxCsvRows == 2

CsvTexts ==
    {<<>>,
     <<"T", "i", "t", "l", "e", " ", "t", "a", "g">>,
     <<"a", ",", "b">>,
     <<"s", "a", "y", " ", "\"", "h", "i", "\"">>,
     <<"l", "i", "n", "e", "1", "\n", "l", "i", "n", "e", "2">>,
     <<"a", ",", "b", "\"", "c", "\n", "d">>,
     <<"\"">>,
     <<" ", "x", "\r">>}

CsvPlainRow(i) ==
    [id |-> BundledId(i), check |-> FALSE,
     inspectionElement |-> Chars(<<"E", "l">> \o DecChars(i)),
     priority |-> Chars(<<>>), issueCategory |-> Chars(<<"7", "-", " ", "O", "t", "h", "e", "r">>),
     issueSubCategory |-> Chars(<<>>), skillset |-> Chars(<<"S", "E", "O">>),
     score |-> Chars(<<>>), analysis |-> Chars(<<"o", "k">>),
     recommendations |-> Chars(<<>>), implementer |-> Chars(<<>>)]

\* the rows at position i: one field edited to one of the texts, or missing;
\* the switch on, with a score and a priority or without; and a row with
\* every text field special
CsvRowsAt(i) ==
    {[CsvPlainRow(i) EXCEPT ![k] = v] :
        k \in {"inspectionElement", "analysis", "implementer"}, v \in {Chars(t) : t \in CsvTexts} \cup {Undefined, JNull}}
      \cup {[CsvPlainRow(i) EXCEPT !.check = TRUE, !.score = sp[1], !.priority = sp[2]] :
               sp \in {<<Chars(NA), Undefined>>, <<Chars(<<"3">>), Chars(<<"1", "2">>)>>}}
      \cup {[CsvPlainRow(i) EXCEPT !.inspectionElement = Chars(<<"a", ",", "b">>),
                                   !.analysis = Chars(<<"\"", "q", "\"">>),
                                   !.recommendations = Chars(<<"1", ".", "\n", "2", ".">>),
                                   !.issueSubCategory = Chars(<<",">>),
                                   !.implementer = Chars(<<"C", "l", "i", "e", "n", "t", "/", "D", "e", "v">>),
                                   !.check = TRUE]}

RECURSIVE CsvDatasets(_)
CsvDatasets(n) == IF n = 0 THEN {<<>>}
                  ELSE {Append(d, r) : d \in CsvDatasets(n - 1), r \in CsvRowsAt(n)}

CsvInit ==
    /\ ProxyIdle
    /\ \E n \in 0..MaxCsvRows : data \in CsvDatasets(n)
    /\ storage = Absent
    /\ templateSource = "bundled"
    /\ loadingId = NoId
    /\ phase = "ready"
    /\ queued = NoQueue
    /\ dirty = FALSE
    /\ inflight = [i \in RowIds |-> 0]
    /\ budget = 1
    /\ last = [op |-> "none", output |-> <<>>]

FnDownloadCSV ==
    /\ budget = 1
    /\ last' = [op |-> "downloadCSV", output |-> downloadCSV(data)]
    /\ budget' = 0
    /\ UNCHANGED data
    /\ FnFrame

SpecCsv == CsvInit /\ [][FnDownloadCSV]_vars


(***************************************************************************)
(* SpecRecs: the mounted page showing the bundled template; generateRecs   *)
(* calls interleaved with their completions and with edits                 *)
(***************************************************************************)
MaxRecOps == 3

RecsInit ==
    /\ ProxyIdle
    /\ data = BUNDLED_TEMPLATE
    /\ storage = JSONstringify(BUNDLED_TEMPLATE)
    /\ templateSource = "bundled"
    /\ loadingId = NoId
    /\ phase = "ready"
    /\ queued = NoQueue
    /\ dirty = FALSE
    /\ inflight = [i \in RowIds |-> 0]
    /\ budget = MaxRecOps
    /\ last = [op |-> "init", written |-> TRUE, removed |-> FALSE]

RecsNext ==
    \/ PersistEffect(TRUE)
    \/ \E i \in RowPositions : GenerateRecs(i)
    \/ \E id \in RowIds, reply \in ProxyReplies : RecsSettle(id, reply)
    \/ \E i \in RowPositions, v \in {<<"9">>, NA} : SelectScore(i, v)
    \/ \E i \in RowPositions, kv \in TextEdits : TypeText(i, kv)
    \/ AutoPrioritize
    \/ ResetToBundled(TRUE)

SpecRecs == RecsInit /\ [][RecsNext]_vars


(***************************************************************************)
(* SpecMount: the start of a session, from each stored snapshot, with and  *)
(* without StrictMode's second run of the mount effects                    *)
(***************************************************************************)
NRowsMount == 2

\* an earlier session can have left nothing in the slot, or the snapshot of a
\* dataset
MountInit ==
    /\ ProxyIdle
    /\ data = <<>>
    /\ \/ storage = Absent
       \/ \E n \in 0..NRowsMount : storage \in {JSONstringify(d) : d \in FnDatasets(n)}
    /\ templateSource = "bundled"
    /\ loadingId = NoId
    /\ phase = "mountLoad"
    /\ queued = NoQueue
    /\ dirty = FALSE
    /\ inflight = [i \in RowIds |-> 0]
    /\ budget = 0
    /\ last = [op |-> "init", written |-> FALSE, removed |-> FALSE, previous |-> storage]

MountNext ==
    \/ \E ok \in BOOLEAN : MountLoadEffect(ok)
    \/ \E ok \in BOOLEAN : MountPersistEffect(ok)
    \/ StrictModeRemount
    \/ MountCommit
    \/ \E ok \in BOOLEAN : PersistEffect(ok)

SpecMount == MountInit /\ [][MountNext]_vars


(***************************************************************************)
(* Properties of the recommendation proxy (SpecProxy)                      *)
(***************************************************************************)
ScoreNineRequest ==
    /\ request.kind = "value"
    /\ request.value.t = "object"
    /\ Get(request.value, "score").t = "string"
    /\ Get(request.value, "score").s = "9"

ElementText ==
    IF Get(request.value, "element").t = "string" THEN Get(request.value, "element").s ELSE ""

AckSentence ==
    "No action needed. \"" \o ElementText
      \o "\" meets best practices. Maintain current implementation and monitor over time."

Answered(status, text) ==
    /\ Len(responses) = 1
    /\ responses[1].status = status
    /\ responses[1].body.t = "object"
    /\ DOMAIN responses[1].body.f = {"recommendation"}
    /\ responses[1].body.f.recommendation.t = "string"
    /\ responses[1].body.f.recommendation.s = text

\* C1 as stated: a request whose score is "9" never reaches the upstream API and
\* is answered with the acknowledgment sentence naming its element, whatever the
\* configuration (a missing credential included).
C1_AckWhateverTheConfiguration ==
    ScoreNineRequest => /\ upstream = <<>>
                        /\ pc = "done" => Answered(200, AckSentence)

\* C1 amended: a request whose score is "9" never reaches the upstream API; with
\* the credential present it is answered 200 with the acknowledgment sentence
\* naming its element, and with the credential missing it is answered 500 with
\* the missing-configuration message.
C1_ShortCircuit ==
    ScoreNineRequest =>
        /\ upstream = <<>>
        /\ pc = "done" => IF API_KEY # ""
                          THEN Answered(200, AckSentence)
                          ELSE Answered(500, "Server is missing GOOGLE_GENAI_API_KEY.")

C1_Witness ==
    /\ ScoreNineRequest /\ pc = "done" /\ API_KEY # ""
    /\ ElementText = "Title tag"
    /\ Answered(200, "No action needed. \"Title tag\" meets best practices. Maintain current implementation and monitor over time.")

UpstreamReplied == Len(upstream) = 1 /\ upstream[1].reply.kind = "response"
Unparseable(raw) == ~JSONparse(raw).ok

\* C2: whenever the upstream API answers with a non-success status or with a
\* (non-empty) body that is not parseable JSON, the proxy answers 500 with a recommendation
\* text and makes no further upstream call.
C2_UpstreamFailureIs500 ==
    (pc = "done" /\ UpstreamReplied
       /\ (upstream[1].reply.status \notin 200..299
             \/ (upstream[1].reply.raw # "" /\ Unparseable(upstream[1].reply.raw))))
    => /\ Len(upstream) = 1
       /\ Len(responses) = 1
       /\ responses[1].status = 500
       /\ Get(responses[1].body, "recommendation").t = "string"

Terminal == {"Succeeded", "Failed"}

HasRecommendationString(r) ==
    /\ r.body.t = "object"
    /\ "recommendation" \in DOMAIN r.body.f
    /\ r.body.f.recommendation.t = "string"

C8_StateOk ==
    /\ reqState \in {"Idle", "Requesting"} \cup Terminal
    /\ reqState \in Terminal <=> Len(responses) = 1
    /\ reqState \notin Terminal => responses = <<>>
    /\ reqState = "Requesting" => ENABLED ProxyNext
    /\ \A i \in 1..Len(responses) : HasRecommendationString(responses[i])

C8_StepOk ==
    /\ reqState = "Idle" => reqState' \in {"Idle", "Requesting"}
    /\ reqState = "Requesting" => reqState' \in {"Requesting"} \cup Terminal
    /\ reqState \in Terminal => reqState' = reqState /\ responses' = responses

\* C8: a request goes Idle -> Requesting -> one terminal outcome (Succeeded or
\* Failed) that it never leaves, a request being handled can always take its
\* next step, and exactly one response is returned, an object whose
\* recommendation field is present and is a string, on every path.
C8_OneOutcomeWithRecommendation == [](C8_StateOk) /\ [][C8_StepOk]_vars

C8_Witness ==
    /\ reqState = "Failed" /\ Len(responses) = 1
    /\ responses[1].status = 200
    /\ UpstreamReplied /\ upstream[1].reply.raw = "{\"candidates\":[{\"finish_reason\":\"MAX_TOKENS\"}]}"
    /\ responses[1].body.f.recommendation.s
         = "No recommendation text returned. No text in response. finishReason=MAX_TOKENS"

\* C9: with the credential absent every request, whatever req.json() would give,
\* is answered 500 with the message naming the missing configuration, and no
\* upstream call is made.
C9_MissingCredential ==
    API_KEY = "" => /\ upstream = <<>>
                    /\ pc \in {"idle", "entered", "done"}
                    /\ pc = "done" => /\ reqState = "Failed"
                                      /\ Answered(500, "Server is missing GOOGLE_GENAI_API_KEY.")

C9_Witness ==
    /\ API_KEY = "" /\ pc = "done" /\ request.kind = "throws"
    /\ Answered(500, "Server is missing GOOGLE_GENAI_API_KEY.")


(***************************************************************************)
(* Properties of the dataset store (Spec)                                  *)
(***************************************************************************)
\* C3: once resetToBundled (its removeItem not failing) and the effects it
\* triggers have run, the dataset is the bundled default and the storage slot
\* holds no snapshot (until the next mutation of the dataset).
C3_ResetDiscardsSnapshot ==
    (last.op = "reset" /\ last.removed /\ phase = "ready" /\ ~dirty)
    => (data = BUNDLED_TEMPLATE /\ ~storage.present)

ValidScores == {<<>>, <<"N", "/", "A">>} \cup {<<Digit[d + 1]>> : d \in 1..9}

\* C6: in every reachable state every row's score, in the dataset and in the
\* dataset about to be rendered, is "", "N/A" or one of "1".."9".
C6_ScoresValid ==
    /\ \A i \in 1..Len(data) : data[i].score \in ValidScores
    /\ \A i \in 1..Len(queued.data) : queued.data[i].score \in ValidScores

C6_Witness ==
    /\ phase = "ready" /\ templateSource = "localStorage"
    /\ Len(data) = NBundled
    /\ data[NBundled].score = <<"9">>
    /\ storage = JSONstringify(data)

\* C7: after a mutation of the dataset, once its persist effect has run and the
\* write did not fail, the stored snapshot is the JSON text of the dataset in
\* memory (so the later of two writes is the one stored).
C7_WriteThrough ==
    (phase = "ready" /\ ~dirty /\ last.written) => storage = JSONstringify(data)

C7_Witness ==
    /\ phase = "ready" /\ ~dirty /\ last.written /\ last.op = "writeBack"
    /\ Len(data) = NBundled
    /\ data[1].recommendations = "Fix A now"
    /\ data[1].check
    /\ storage.present /\ Len(storage.json) = NBundled
    /\ storage.json[1][10] = <<"recommendations", JStr("Fix A now")>>

(***************************************************************************)
(* Properties of the dataset functions (SpecFn)                            *)
(***************************************************************************)
Positions(rows) == 1..Len(rows)
PriorityValue(r) == DigitsToNat(r.priority)

InProjection(r) == r.score # <<"9">>
MaxSeverity(rows, i) ==
    \A j \in Positions(rows) :
        InProjection(rows[j]) => inferSeverity(rows[j].score) <= inferSeverity(rows[i].score)

\* C4: after autoPrioritize (on a dataset whose checklist projection, the rows
\* not scored "9", is not empty) a row of the projection holds priority "1",
\* every row of the projection that holds "1" has the maximum severity in the
\* projection, and among projection rows of equal severity the priorities
\* increase in the rows' original order in the dataset.
C4_RankedInOriginalOrder ==
    last.op = "autoPrioritize" =>
        LET b == last.before
        IN  /\ (\E i \in Positions(b) : InProjection(b[i]))
                 => \E i \in Positions(b) : InProjection(b[i]) /\ data[i].priority = <<"1">>
            /\ \A i \in Positions(b) :
                 (InProjection(b[i]) /\ data[i].priority = <<"1">>) => MaxSeverity(b, i)
            /\ \A i, j \in Positions(b) :
                 (/\ i < j /\ InProjection(b[i]) /\ InProjection(b[j])
                  /\ inferSeverity(b[i].score) = inferSeverity(b[j].score))
                 => PriorityValue(data[i]) < PriorityValue(data[j])

\* C5: the checklist projection is ordered by ascending numeric priority, every
\* row without a priority after every row with one, and rows of equal priority
\* by descending severity.
C5_ProjectionOrdered ==
    LET P == implementationRows(data)
    IN  \A i, j \in Positions(P) :
          i < j =>
            /\ P[i].priority = <<>> => P[j].priority = <<>>
            /\ (P[i].priority # <<>> /\ P[j].priority # <<>>)
                 => PriorityValue(P[i]) <= PriorityValue(P[j])
            /\ (\/ (P[i].priority = <<>> /\ P[j].priority = <<>>)
                \/ (P[i].priority # <<>> /\ P[j].priority # <<>>
                      /\ PriorityValue(P[i]) = PriorityValue(P[j])))
                 => inferSeverity(P[i].score) >= inferSeverity(P[j].score)

OtherKeys(k) == {RowKeys[n] : n \in 1..Len(RowKeys)} \ {k}

\* C10: onChangeField(id, key, value) keeps the number and order of the rows,
\* gives the named field of the row with that id the new value, leaves that
\* row's other fields and every other row as they were, and changes nothing
\* when no row has that id.
C10_UpdateFrame ==
    last.op = "onChangeField" =>
        LET b == last.before
        IN  /\ Len(data) = Len(b)
            /\ \A i \in Positions(b) :
                 IF b[i].id = last.id
                 THEN /\ DOMAIN data[i] = DOMAIN b[i]
                      /\ data[i][last.key] = last.value
                      /\ \A k \in OtherKeys(last.key) : data[i][k] = b[i][k]
                 ELSE data[i] = b[i]
            /\ (\A i \in Positions(b) : b[i].id # last.id) => data = b

C10_Witness ==
    /\ last.op = "onChangeField" /\ last.id = 102 /\ last.key = "priority"
    /\ Len(data) = 3
    /\ last.before[2].priority = <<"1">> /\ data[2].priority = <<"2">>
    /\ data[2].score = <<"7">>
    /\ data[1] = last.before[1] /\ data[3] = last.before[3]
    /\ data[1].priority = <<"1">> /\ data[1].score = <<"3">>

CountIn(P, id) == Cardinality({j \in Positions(P) : P[j].id = id})

\* C11: for every dataset, a row is in the implementation-checklist projection
\* exactly once when its score is not "9" (scores "N/A" and "" included) and
\* not at all when its score is "9"; the projection holds nothing else, and
\* each of its rows is the dataset's row with its severity added.
C11_ProjectionMembership ==
    LET P == implementationRows(data)
    IN  /\ \A i \in Positions(data) :
              CountIn(P, data[i].id) = IF data[i].score = <<"9">> THEN 0 ELSE 1
        /\ Len(P) = Cardinality({i \in Positions(data) : data[i].score # <<"9">>})
        /\ \A j \in Positions(P) :
              \E i \in Positions(data) :
                  /\ P[j].id = data[i].id
                  /\ \A k \in DOMAIN data[i] : P[j][k] = data[i][k]

C11_Witness ==
    /\ last.op = "onChangeField" /\ last.key = "score" /\ last.id = 101
    /\ Len(data) = 3
    /\ last.before[1].score = <<"3">> /\ data[1].score = <<"9">>
    /\ data[2].score = NA /\ data[3].score = <<>>
    /\ Len(implementationRows(data)) = 2
    /\ {implementationRows(data)[j].id : j \in 1..2} = {102, 103}

(***************************************************************************)
(* Properties of sanitizeScore (SpecScore)                                 *)
(***************************************************************************)
IsText(v) == v.t = "string"
BlankText(t) == \A i \in DOMAIN t : t[i] \in WhiteSpace
\* the text is n/a in some casing (white space around it aside)
IsNAText(t) ==
    \E i \in DOMAIN t :
        /\ i + 2 <= Len(t)
        /\ t[i] \in {"n", "N"} /\ t[i + 1] = "/" /\ t[i + 2] \in {"a", "A"}
        /\ \A j \in DOMAIN t : j \notin i..(i + 2) => t[j] \in WhiteSpace

ScoreAsNat(out) == IF Len(out) = 1 /\ out[1] \in DigitChars THEN DigitVal(out[1]) ELSE 0

\* r is x rounded to the nearest integer and clamped to [1,9]
NearestClamped(r, x) ==
    /\ r \in 1..9
    /\ r = 1 => 2 * x.num <= 3 * x.den
    /\ r = 9 => 2 * x.num >= 17 * x.den
    /\ r > 1 => 2 * x.num >= (2 * r - 1) * x.den
    /\ r < 9 => 2 * x.num <= (2 * r + 1) * x.den

\* C12: sanitizeScore gives a result for every input, always one of "", "N/A",
\* "1".."9": "" for null, undefined and empty or white-space-only text, "N/A"
\* for n/a in any casing, "" for a text whose number is not finite, and for
\* every other text its number rounded to the nearest integer and clamped to
\* [1,9].
C12_SanitizeScore ==
    last.op = "sanitizeScore" =>
        LET v   == last.input
            out == last.output
        IN  /\ out \in ValidScores
            /\ v.t \in {"undefined", "null"} => out = <<>>
            /\ IsText(v) =>
                 IF BlankText(v.s) THEN out = <<>>
                 ELSE IF IsNAText(v.s) THEN out = NA
                 ELSE IF ~IsFinite(NumberOf(v.s)) THEN out = <<>>
                 ELSE NearestClamped(ScoreAsNat(out), NumberOf(v.s))
            /\ v = Chars(<<"1", "5">>) => out = <<"9">>
            /\ v = Chars(<<"0">>) => out = <<"1">>
            /\ v = Chars(<<"n", "/", "a">>) => out = NA
            /\ v = Chars(<<>>) => out = <<>>
            /\ v = Chars(<<"a", "b", "c">>) => out = <<>>
            /\ v = Chars(<<"1", "e", "9", "9", "9">>) => out = <<>>
            /\ v = Chars(<<"0", "x", "1", "0">>) => out = <<"9">>
            /\ v = Chars(<<"1", ".", "5">>) => out = <<"2">>
            /\ v = Chars(<<"-", ".", "5">>) => out = <<"1">>

C12_Witness ==
    /\ last.op = "sanitizeScore"
    /\ last.input = Chars(<<"1", "5">>)
    /\ last.output = <<"9">>

(***************************************************************************)
(* Properties of the CSV export (SpecCsv)                                  *)
(***************************************************************************)
\* A reader of CSV text: a position is inside quotes when an odd number of
\* quotes precede it; records end at a newline outside quotes, fields at a
\* comma outside quotes; a field wrapped in quotes is quoted and "" inside it
\* is one quote.  Each field is read with its value and whether it was quoted.
CsvField(value, quoted) == [value |-> value, quoted |-> quoted]
Outside(t, i) == Cardinality({j \in 1..(i - 1) : t[j] = "\""}) % 2 = 0
Breaks(t, c) == {i \in DOMAIN t : t[i] = c /\ Outside(t, i)}
Nth(S, k) == CHOOSE x \in S : Cardinality({y \in S : y < x}) = k - 1
\* the pieces of t[from..to] between the break positions B
Pieces(t, from, to, B) ==
    LET n == Cardinality(B)
    IN  [k \in 1..(n + 1) |->
            [from |-> IF k = 1 THEN from ELSE Nth(B, k - 1) + 1,
             to   |-> IF k = n + 1 THEN to ELSE Nth(B, k) - 1]]
RECURSIVE Undouble(_)
Undouble(s) ==
    IF Len(s) = 0 THEN <<>>
    ELSE IF Head(s) # "\"" THEN <<Head(s)>> \o Undouble(Tail(s))
    ELSE IF Len(s) >= 2 /\ s[2] = "\"" THEN <<"\"">> \o Undouble(Tail(Tail(s)))
    ELSE <<"a quote that is not doubled">> \o Undouble(Tail(s))
ReadField(raw) ==
    IF Len(raw) >= 2 /\ raw[1] = "\"" /\ raw[Len(raw)] = "\""
    THEN CsvField(Undouble(SubSeq(raw, 2, Len(raw) - 1)), TRUE)
    ELSE CsvField(raw, FALSE)
ReadCsv(t) ==
    LET lines == Pieces(t, 1, Len(t), Breaks(t, "\n"))
        commas == Breaks(t, ",")
    IN  [l \in 1..Len(lines) |->
            LET fields == Pieces(t, lines[l].from, lines[l].to,
                                 {i \in commas : lines[l].from <= i /\ i <= lines[l].to})
            IN  [f \in 1..Len(fields) |-> ReadField(SubSeq(t, fields[f].from, fields[f].to))]]

\* the text of a field of a row: nothing for a missing field
TextOf(v) == IF v.t = "string" THEN v.s ELSE <<>>
Special(s) == \E i \in DOMAIN s : s[i] = "," \/ s[i] = "\"" \/ s[i] = "\n"

\* the eleven values of the record of row r
ExpectedRecord(r) ==
    <<IF r.check THEN <<"T", "R", "U", "E">> ELSE <<"F", "A", "L", "S", "E">>,
      TextOf(r.inspectionElement), TextOf(r.priority), TextOf(r.issueCategory),
      TextOf(r.issueSubCategory), TextOf(r.skillset), TextOf(r.score), <<"9">>,
      TextOf(r.analysis), TextOf(r.recommendations), TextOf(r.implementer)>>

\* C13: for every sequence of rows the exported text reads back as the
\* eleven-column header followed by one record per row, in the rows' order,
\* each with the row's eleven values, TARGET SCORE "9" and X/check TRUE or
\* FALSE; a field is quoted (its quotes doubled) exactly when its value holds
\* a comma, a quote or a newline, and is there verbatim otherwise.
C13_CsvExport ==
    last.op = "downloadCSV" =>
        LET recs == ReadCsv(last.output)
        IN  /\ Len(recs) = 1 + Len(data)
            /\ Len(recs[1]) = 11
            /\ \A c \in 1..11 : recs[1][c] = CsvField(CSV_HEADERS[c], FALSE)
            /\ \A i \in 1..Len(data) :
                  /\ Len(recs[i + 1]) = 11
                  /\ \A c \in 1..11 :
                        /\ recs[i + 1][c].value = ExpectedRecord(data[i])[c]
                        /\ recs[i + 1][c].quoted <=> Special(ExpectedRecord(data[i])[c])
                  /\ recs[i + 1][8].value = <<"9">>
                  /\ recs[i + 1][1].value \in {<<"T", "R", "U", "E">>, <<"F", "A", "L", "S", "E">>}

C13_Witness ==
    /\ last.op = "downloadCSV"
    /\ Len(data) = 2
    /\ data[1].analysis = Chars(<<"a", ",", "b", "\"", "c", "\n", "d">>)
    /\ data[2].check /\ data[2].score = Chars(<<"3">>)
    /\ LET recs == ReadCsv(last.output)
       IN  /\ Len(recs) = 3
           /\ recs[2][9] = CsvField(<<"a", ",", "b", "\"", "c", "\n", "d">>, TRUE)
           /\ recs[3][1].value = <<"T", "R", "U", "E">>
    /\ \E k \in 1..(Len(last.output) - 11) :
          SubSeq(last.output, k, k + 11)
            = <<",", "\"", "a", ",", "b", "\"", "\"", "c", "\n", "d", "\"", ",">>

(***************************************************************************)
(* Properties of generateRecs (SpecRecs)                                   *)
(***************************************************************************)
\* C14 as stated: while a request for a row is in flight loadingId is that
\* row's id, whatever generateRecs calls on other rows are interleaved, so a
\* row never has two requests in flight.
C14_LoadingIdHeldWhileInFlight ==
    \A id \in RowIds :
        /\ inflight[id] > 0 => loadingId = id
        /\ inflight[id] <= 1

Started(id) == inflight'[id] = inflight[id] + 1

C14_StateOk == loadingId # NoId => (loadingId \in RowIds /\ inflight[loadingId] > 0)
C14_StepOk ==
    /\ \A id \in RowIds : Started(id) => (loadingId # id /\ loadingId' = id)
    /\ (loadingId' # loadingId /\ loadingId' # NoId) => Started(loadingId')

\* C14 amended: loadingId is one value for the whole table.  A request for a
\* row is started only while loadingId is not that row's id and sets
\* loadingId to it; loadingId is empty or the id of a row with a request in
\* flight, and it changes only to the row of a request just started or to
\* empty.  (A request started on another row, or the completion of any
\* request, therefore re-enables the control of a row whose request is still
\* in flight.)
C14_LoadingIdIsLastStarted == [](C14_StateOk) /\ [][C14_StepOk]_vars

C14_Witness ==
    /\ inflight[101] = 2
    /\ inflight[102] = 1
    /\ loadingId = 101

\* the write-back of this step is for the request of row id: one of its
\* requests completes, or the row is scored "9" and generateRecs ends at once
Issuer(id) ==
    \/ inflight'[id] = inflight[id] - 1
    \/ /\ inflight' = inflight
       /\ \E i \in Positions(data) : data[i].id = id /\ data[i].score = <<"9">>

C15_StepOk ==
    (last'.op = "writeBack" /\ data' # data) =>
        \E id \in RowIds :
            /\ Issuer(id)
            /\ Len(data') = Len(data)
            /\ \A i \in Positions(data) :
                  IF data[i].id = id
                  THEN \A k \in OtherKeys("recommendations") : data'[i][k] = data[i][k]
                  ELSE data'[i] = data[i]

\* C15: the write-back of a generateRecs call (a recommendation, the fallback
\* text or an error text) is applied to the dataset as it is when the call
\* completes and changes nothing but the recommendations field of the row
\* with the id the call was made for: every other field and every other row,
\* as edited, auto-prioritised or reset while the request was in flight,
\* stays as it is.
C15_WriteBackFrame == [][C15_StepOk]_vars

C15_Witness ==
    /\ last.op = "writeBack" /\ budget = 0
    /\ inflight = [id \in RowIds |-> 0]
    /\ Len(data) = NBundled
    /\ data[1].recommendations = "No recommendation returned."
    /\ data[1].inspectionElement = "Title tag"
    /\ data[1].priority = <<"1">>
    /\ data[2].priority = <<"2">>

(***************************************************************************)
(* Properties of the session start (SpecMount)                             *)
(***************************************************************************)
EmptySnapshot == JSONstringify(<<>>)
HadSnapshot == last.previous.present /\ last.previous # EmptySnapshot

\* C16: when the session starts with a non-empty snapshot stored, then
\* throughout the mount the slot holds that snapshot or the JSON text of the
\* dataset the load effect produced, never the text "[]" of the empty initial
\* dataset, and once the mount is over (its effects run once or twice) the
\* dataset in memory is the stored snapshot's or the bundled default.
C16_SnapshotSurvivesMount ==
    HadSnapshot =>
        /\ storage # EmptySnapshot
        /\ \/ storage = last.previous
           \/ queued.source # "none" /\ storage = JSONstringify(queued.data)
           \/ phase = "ready" /\ storage = JSONstringify(data)
        /\ phase = "ready" => data \in {JSONparseRows(last.previous), BUNDLED_TEMPLATE}

=============================================================================
